---- MODULE Spec2Model ----
(***************************************************************************)
(* Model of EDV: the spreadsheet validation engine (ExcelProcessor), the    *)
(* fuzzy search wrapper (FuzzySearch) and the upload page (Index).         *)
(*                                                                         *)
(* Strings are sequences of one-character strings, so that trimming,       *)
(* lower-casing, substring search and the validators' patterns are         *)
(* computed character by character, as the code computes them.  A raw cell *)
(* value is a record [t, v]: t is the JavaScript type of the value and v   *)
(* its payload.                                                            *)
(***************************************************************************)
EXTENDS Integers, Sequences, FiniteSets, TLC

VARIABLES
    sheetCount,   \* workbook.SheetNames.length of the uploaded file
    jsonData,     \* XLSX.utils.sheet_to_json(worksheet, {header: 1}): rows of cells
    pc,           \* position of processFile: "ready", "resolved" or "rejected"
    outcome,      \* what the promise settled with: [data, errors] or [error]
    col0,         \* getCellAddress: the column index the loop was entered with
    col,          \* getCellAddress: the loop variable col
    letters,      \* getCellAddress: the loop variable result
    apc,          \* getCellAddress: "idle", "loop" or "done"
    consoleLog,   \* what processFile has written with console.log
    fuseData,     \* FuzzySearch: the row objects the Fuse index was built over
    spc,          \* FuzzySearch: "none", "idle" or "returned"
    call,         \* FuzzySearch: the last call, what it asked of Fuse, its value
    file,             \* Index: the name of the selected file, <<>> for null
    isProcessing,     \* Index: useState isProcessing
    validationErrors, \* Index: useState validationErrors
    sheetData,        \* Index: useState sheetData, <<>> for null, else <<dataset>>
    searchQuery,      \* Index: useState searchQuery
    showStoredFiles,  \* Index: useState showStoredFiles
    storedFiles,      \* Index: useState storedFiles
    filteredData,     \* Index: the value useMemo holds for filteredData
    memoDeps,         \* Index: the dependencies filteredData was computed for
    lastToast,        \* Index: the title of the last toast shown
    task,             \* Index: where the running handleFileSelect stands
    mounted,          \* Index: whether the mount effect's loadStoredFiles settled
    uploads,          \* Index: number of calls of handleFileSelect so far
    lastSelected,     \* Index: the file the last call of handleFileSelect was given
    uploadToasts,     \* Index: the toasts that call has shown so far, in order
    excelData,        \* supabase: the rows of table excel_data, oldest first
    inserts           \* supabase: the insert requests the page has issued

procVars == <<sheetCount, jsonData, pc, outcome, consoleLog>>

addrVars == <<col0, col, letters, apc>>

searchVars == <<fuseData, spc, call>>

pageVars ==
    <<file, isProcessing, validationErrors, sheetData, searchQuery, showStoredFiles,
      storedFiles, filteredData, memoDeps, lastToast, task, mounted, uploads,
      lastSelected, uploadToasts>>

dbVars == <<excelData, inserts>>

vars == <<procVars, addrVars, searchVars, pageVars, dbVars>>

(***************************************************************************)
(* Bounds of the model.                                                    *)
(***************************************************************************)
MaxCells == 5      \* data rows * columns of a sheet is at most this
MaxHeaders == 3    \* a sheet has at most this many columns
MaxCol == 760      \* getCellAddress is run for column indices 0..MaxCol

(***************************************************************************)
(* Characters and strings.                                                 *)
(***************************************************************************)
Range(s) == { s[i] : i \in DOMAIN s }

Digits == <<"0", "1", "2", "3", "4", "5", "6", "7", "8", "9">>

Upper == <<"A", "B", "C", "D", "E", "F", "G", "H", "I", "J", "K", "L", "M",
           "N", "O", "P", "Q", "R", "S", "T", "U", "V", "W", "X", "Y", "Z">>

Lower == <<"a", "b", "c", "d", "e", "f", "g", "h", "i", "j", "k", "l", "m",
           "n", "o", "p", "q", "r", "s", "t", "u", "v", "w", "x", "y", "z">>

IndexOf(seq, c) == CHOOSE i \in DOMAIN seq : seq[i] = c

DigitChars == Range(Digits)

UpperChars == Range(Upper)

IsDigit(c) == c \in DigitChars

\* \s of a regular expression, and the characters String.prototype.trim strips
IsSpace(c) == c \in {" ", "\t", "\n", "\r"}

LowerOf == [c \in UpperChars |-> Lower[IndexOf(Upper, c)]]

LowerChar(c) == IF c \in UpperChars THEN LowerOf[c] ELSE c

toLowerCase(s) == [i \in DOMAIN s |-> LowerChar(s[i])]

includes(s, sub) ==
    \E i \in 0..(Len(s) - Len(sub)) : SubSeq(s, i + 1, i + Len(sub)) = sub

trim(s) ==
    IF \A i \in DOMAIN s : IsSpace(s[i]) THEN <<>>
    ELSE LET first == CHOOSE i \in DOMAIN s :
                          /\ ~IsSpace(s[i])
                          /\ \A j \in 1..(i - 1) : IsSpace(s[j])
             last  == CHOOSE i \in DOMAIN s :
                          /\ ~IsSpace(s[i])
                          /\ \A j \in (i + 1)..Len(s) : IsSpace(s[j])
         IN  SubSeq(s, first, last)

RECURSIVE NatToString(_)
NatToString(n) ==
    IF n < 10 THEN <<Digits[n + 1]>>
    ELSE NatToString(n \div 10) \o <<Digits[(n % 10) + 1]>>

\* Number.prototype.toString for an integer
NumberToString(n) == IF n < 0 THEN <<"-">> \o NatToString(-n) ELSE NatToString(n)

\* the value of a string of decimal digits
RECURSIVE ParseDigits(_)
ParseDigits(s) ==
    IF s = <<>> THEN 0
    ELSE ParseDigits(SubSeq(s, 1, Len(s) - 1)) * 10 + (IndexOf(Digits, s[Len(s)]) - 1)

(***************************************************************************)
(* Raw cell values, and the JavaScript conversions the code applies.       *)
(***************************************************************************)
Undefined == [t |-> "undefined", v |-> 0]
Null      == [t |-> "null", v |-> 0]
Str(s)    == [t |-> "string", v |-> s]
Num(n)    == [t |-> "number", v |-> n]
Bool(b)   == [t |-> "boolean", v |-> b]

\* String(value)
String(value) ==
    CASE value.t = "string"    -> value.v
      [] value.t = "number"    -> NumberToString(value.v)
      [] value.t = "boolean"   -> IF value.v THEN <<"t", "r", "u", "e">>
                                  ELSE <<"f", "a", "l", "s", "e">>
      [] value.t = "null"      -> <<"n", "u", "l", "l">>
      [] value.t = "undefined" -> <<"u", "n", "d", "e", "f", "i", "n", "e", "d">>

\* ToBoolean(value) is false
Falsy(value) ==
    \/ value.t \in {"undefined", "null"}
    \/ value.t = "string" /\ value.v = <<>>
    \/ value.t = "number" /\ value.v = 0
    \/ value.t = "boolean" /\ value.v = FALSE

\* value || ''
OrEmpty(value) == IF Falsy(value) THEN Str(<<>>) ELSE value

(***************************************************************************)
(* Field validators.                                                       *)
(***************************************************************************)
\* /^[^\s@]+@[^\s@]+\.[^\s@]+$/ : an "@" at i and a "." at j split the string
\* into three non-empty runs of characters that are neither white space nor "@"
validateEmail(email) ==
    \E i, j \in DOMAIN email :
        /\ email[i] = "@"
        /\ email[j] = "."
        /\ 1 < i
        /\ i + 1 < j
        /\ j < Len(email)
        /\ \A k \in DOMAIN email \ {i} : ~IsSpace(email[k]) /\ email[k] # "@"

\* phone.replace(/\D/g, '') matched against /^\d{10}$/
validatePhone(phone) == Len(SelectSeq(phone, IsDigit)) = 10

IsDigits(s) == s # <<>> /\ \A i \in DOMAIN s : IsDigit(s[i])

IsMantissa(m) ==
    \/ IsDigits(m)
    \/ \E p \in DOMAIN m :
          LET a == SubSeq(m, 1, p - 1)
              b == SubSeq(m, p + 1, Len(m))
          IN  /\ m[p] = "."
              /\ a = <<>> \/ IsDigits(a)
              /\ b = <<>> \/ IsDigits(b)
              /\ a # <<>> \/ b # <<>>

Unsigned(s) == IF s # <<>> /\ s[1] \in {"+", "-"} THEN Tail(s) ELSE s

\* a StrDecimalLiteral other than Infinity; the exponent is kept to two digits,
\* which no mantissa of the bounded inputs takes out of the finite range
IsDecimalLiteral(s) ==
    LET u == Unsigned(s)
    IN  \/ IsMantissa(u)
        \/ \E p \in DOMAIN u :
              LET e == Unsigned(SubSeq(u, p + 1, Len(u)))
              IN  /\ u[p] \in {"e", "E"}
                  /\ IsMantissa(SubSeq(u, 1, p - 1))
                  /\ IsDigits(e)
                  /\ Len(e) <= 2

\* 0x, 0o and 0b integer literals
IsNonDecimalLiteral(s) ==
    /\ Len(s) >= 3
    /\ s[1] = "0"
    /\ LET body == toLowerCase(SubSeq(s, 3, Len(s)))
           ok(allowed) == \A i \in DOMAIN body : body[i] \in allowed
       IN  \/ s[2] \in {"x", "X"}
              /\ ok(DigitChars \cup {"a", "b", "c", "d", "e", "f"})
           \/ s[2] \in {"o", "O"} /\ ok({"0", "1", "2", "3", "4", "5", "6", "7"})
           \/ s[2] \in {"b", "B"} /\ ok({"0", "1"})

\* !isNaN(Number(value)) && isFinite(Number(value)): Number() of a string strips
\* white space, reads the empty string as 0 and anything that is no numeric
\* literal as NaN; "Infinity" is no finite number
validateNumeric(value) ==
    LET s == trim(value)
    IN  s = <<>> \/ IsDecimalLiteral(s) \/ IsNonDecimalLiteral(s)

\* The date-only ISO form YYYY-MM-DD every engine parses alike.
IsISODate(s) ==
    /\ Len(s) = 10
    /\ s[5] = "-" /\ s[8] = "-"
    /\ \A i \in {1, 2, 3, 4, 6, 7, 9, 10} : IsDigit(s[i])
    /\ ParseDigits(SubSeq(s, 6, 7)) \in 1..12
    /\ ParseDigits(SubSeq(s, 9, 10)) \in 1..28

\* if (!dateStr) return false; !isNaN(new Date(dateStr).getTime()).  new Date
\* of a string holding no digit is an Invalid Date; of the strings that hold
\* a digit only the ISO date-only form is modelled (the rest is left to each
\* engine's fallback parser, and the bounded inputs hold none of them).
validateDate(dateStr) ==
    /\ dateStr # <<>>
    /\ IsISODate(dateStr)

(***************************************************************************)
(* Cell addresses.                                                         *)
(***************************************************************************)
\* the letter taken with 64 as its base: 1..26 would be A..Z, 0 is "@"
ColumnLetterFrom64(c) == (<<"@">> \o Upper)[(c % 26) + 1]

\* String.fromCharCode(65 + (col % 26))
ColumnLetter(c) == Upper[(c % 26) + 1]

\* Math.floor(col / 26) - 1
NextCol(c) == (c \div 26) - 1

\* the while loop of getCellAddress
RECURSIVE ColumnLoop(_, _)
ColumnLoop(c, result) ==
    IF c >= 0 THEN ColumnLoop(NextCol(c), <<ColumnLetter(c)>> \o result)
    ELSE result

getCellAddress(row, c) == ColumnLoop(c, <<>>) \o NumberToString(row + 1)

(***************************************************************************)
(* Cell classifier: which rules a column name puts a column under.         *)
(***************************************************************************)
IsEmailColumn(header) == includes(toLowerCase(header), <<"e", "m", "a", "i", "l">>)

IsPhoneColumn(header) ==
    \/ includes(toLowerCase(header), <<"p", "h", "o", "n", "e">>)
    \/ includes(toLowerCase(header), <<"m", "o", "b", "i", "l", "e">>)

IsNumericColumn(header) ==
    \/ includes(toLowerCase(header), <<"a", "g", "e">>)
    \/ includes(toLowerCase(header), <<"n", "u", "m", "b", "e", "r">>)
    \/ includes(toLowerCase(header), <<"n", "u", "m", "e", "r", "i", "c">>)

IsDateColumn(header) == includes(toLowerCase(header), <<"d", "a", "t", "e">>)

\* the identity test without toLowerCase()
IsIdentityColumnCaseSensitive(header) ==
    \/ includes(header, <<"i", "d">>)
    \/ includes(header, <<"r", "e", "g", "i", "s", "t", "r", "a", "t", "i", "o", "n">>)
    \/ includes(header, <<"u", "n", "i", "q", "u", "e">>)

IsIdentityColumn(header) ==
    \/ includes(toLowerCase(header), <<"i", "d">>)
    \/ includes(toLowerCase(header), <<"r", "e", "g", "i", "s", "t", "r", "a", "t", "i", "o", "n">>)
    \/ includes(toLowerCase(header), <<"u", "n", "i", "q", "u", "e">>)

(***************************************************************************)
(* Row validation.  rowIndex and colIndex are 0-based, as in the code;     *)
(* sequences are 1-based, so headers[colIndex + 1] is the code's           *)
(* headers[colIndex].  A message is a sequence of text chunks.             *)
(***************************************************************************)
\* the blank test written as !value
IsBlankValueFalsy(value) == Falsy(value)

\* value === undefined || value === null || value === ''
IsBlankValue(value) ==
    \/ value.t = "undefined"
    \/ value.t = "null"
    \/ value.t = "string" /\ value.v = <<>>

\* the row number every error carries
DisplayRow(rowIndex) == rowIndex + 2

ValidationError(cellAddress, rowIndex, header, message, type) ==
    [cellAddress |-> cellAddress, row |-> DisplayRow(rowIndex), column |-> header,
     message |-> message, type |-> type]

\* the rule checks as an else-if chain: the first failing rule ends the cell
RuleErrorsFailFast(stringValue, header, cellAddress, rowIndex) ==
    IF IsEmailColumn(header) /\ ~validateEmail(stringValue)
    THEN <<ValidationError(cellAddress, rowIndex, header,
                           <<"Invalid email format">>, "email")>>
    ELSE IF IsPhoneColumn(header) /\ ~validatePhone(stringValue)
    THEN <<ValidationError(cellAddress, rowIndex, header,
                           <<"Phone number must be exactly 10 digits">>, "phone")>>
    ELSE IF IsNumericColumn(header) /\ ~validateNumeric(stringValue)
    THEN <<ValidationError(cellAddress, rowIndex, header,
                           <<"Must be a valid number">>, "numeric")>>
    ELSE IF IsDateColumn(header) /\ ~validateDate(stringValue)
    THEN <<ValidationError(cellAddress, rowIndex, header,
                           <<"Invalid date format">>, "date")>>
    ELSE <<>>

\* the rule checks that follow the blank check, in the order of the code
RuleErrors(stringValue, header, cellAddress, rowIndex) ==
    (IF IsEmailColumn(header) /\ ~validateEmail(stringValue)
     THEN <<ValidationError(cellAddress, rowIndex, header,
                            <<"Invalid email format">>, "email")>>
     ELSE <<>>)
    \o
    (IF IsPhoneColumn(header) /\ ~validatePhone(stringValue)
     THEN <<ValidationError(cellAddress, rowIndex, header,
                            <<"Phone number must be exactly 10 digits">>, "phone")>>
     ELSE <<>>)
    \o
    (IF IsNumericColumn(header) /\ ~validateNumeric(stringValue)
     THEN <<ValidationError(cellAddress, rowIndex, header,
                            <<"Must be a valid number">>, "numeric")>>
     ELSE <<>>)
    \o
    (IF IsDateColumn(header) /\ ~validateDate(stringValue)
     THEN <<ValidationError(cellAddress, rowIndex, header,
                            <<"Invalid date format">>, "date")>>
     ELSE <<>>)

\* the body of validateRow's headers.forEach: the errors pushed for one cell
CellErrors(rowData, headers, rowIndex, colIndex) ==
    LET header      == headers[colIndex + 1]
        value       == rowData[header]
        cellAddress == getCellAddress(rowIndex + 1, colIndex)
    IN  IF IsBlankValue(value)
        THEN <<ValidationError(cellAddress, rowIndex, header,
                               <<"This field cannot be empty">>, "blank")>>
        ELSE RuleErrors(trim(String(value)), header, cellAddress, rowIndex)

RECURSIVE RowLoop(_, _, _, _)
RowLoop(rowData, headers, rowIndex, colIndex) ==
    IF colIndex >= Len(headers) THEN <<>>
    ELSE CellErrors(rowData, headers, rowIndex, colIndex)
         \o RowLoop(rowData, headers, rowIndex, colIndex + 1)

validateRow(rowData, headers, rowIndex) == RowLoop(rowData, headers, rowIndex, 0)

(***************************************************************************)
(* Uniqueness pass.  The Map values is a function from the keys seen so    *)
(* far to the row index each was first seen at.                            *)
(***************************************************************************)
\* String(row[header] || '').trim()
UniqueKey(value) == trim(String(OrEmpty(value)))

DuplicateMessage(originalRowIndex) ==
    <<"Duplicate value found (also in row ">>
    \o NumberToString(originalRowIndex + 2) \o <<")">>

\* data.forEach of one identity column, from row rowIndex on
RECURSIVE UniqueLoop(_, _, _, _, _)
UniqueLoop(data, header, colIndex, rowIndex, values) ==
    IF rowIndex >= Len(data) THEN <<>>
    ELSE LET value == UniqueKey(data[rowIndex + 1][header])
         IN  IF value # <<>>
             THEN IF value \in DOMAIN values
                  THEN <<ValidationError(getCellAddress(rowIndex + 1, colIndex),
                                         rowIndex, header,
                                         DuplicateMessage(values[value]), "unique")>>
                       \o UniqueLoop(data, header, colIndex, rowIndex + 1, values)
                  ELSE UniqueLoop(data, header, colIndex, rowIndex + 1,
                                  values @@ (value :> rowIndex))
             ELSE UniqueLoop(data, header, colIndex, rowIndex + 1, values)

EmptyMap == [k \in {} |-> 0]

RECURSIVE UniqueColumns(_, _, _)
UniqueColumns(data, headers, colIndex) ==
    IF colIndex >= Len(headers) THEN <<>>
    ELSE (IF IsIdentityColumn(headers[colIndex + 1])
          THEN UniqueLoop(data, headers[colIndex + 1], colIndex, 0, EmptyMap)
          ELSE <<>>)
         \o UniqueColumns(data, headers, colIndex + 1)

checkUniqueConstraints(data, headers) == UniqueColumns(data, headers, 0)

(***************************************************************************)
(* Sort & normalize.                                                       *)
(***************************************************************************)
IsNameColumn(h) ==
    \/ includes(toLowerCase(h), <<"n", "a", "m", "e">>)
    \/ includes(toLowerCase(h), <<"t", "i", "t", "l", "e">>)

\* the name column taken as the last header that matches, not the first
NameColumnLastMatch(headers) ==
    IF \E i \in DOMAIN headers : IsNameColumn(headers[i])
    THEN headers[CHOOSE i \in DOMAIN headers :
                    /\ IsNameColumn(headers[i])
                    /\ \A j \in (i + 1)..Len(headers) : ~IsNameColumn(headers[j])]
    ELSE headers[1]

\* headers.find(h => ...) || headers[0]
NameColumn(headers) ==
    IF \E i \in DOMAIN headers : IsNameColumn(headers[i])
    THEN headers[CHOOSE i \in DOMAIN headers :
                    /\ IsNameColumn(headers[i])
                    /\ \A j \in 1..(i - 1) : ~IsNameColumn(headers[j])]
    ELSE headers[1]

\* String(a[nameColumn] || '').toLowerCase()
SortKey(row, nameColumn) == toLowerCase(String(OrEmpty(row[nameColumn])))

\* The order localeCompare gives the characters of lower-cased keys: white
\* space, punctuation, symbols, digits, letters.
Collation ==
    <<" ", "_", "-", ",", ".", "(", ")", "@", "/", "+">> \o Digits \o Lower

CollationRank(c) == IndexOf(Collation, c)

\* aVal.localeCompare(bVal) < 0, = 0, > 0 as -1, 0, 1
RECURSIVE localeCompare(_, _)
localeCompare(a, b) ==
    CASE a = <<>> /\ b = <<>> -> 0
      [] a = <<>> /\ b # <<>> -> -1
      [] a # <<>> /\ b = <<>> -> 1
      [] OTHER ->
           IF CollationRank(a[1]) < CollationRank(b[1]) THEN -1
           ELSE IF CollationRank(a[1]) > CollationRank(b[1]) THEN 1
           ELSE localeCompare(Tail(a), Tail(b))

\* Array.prototype.sort is stable: an element goes behind every element that
\* does not compare greater than it
RECURSIVE InsertSorted(_, _, _)
InsertSorted(sorted, x, nameColumn) ==
    IF sorted = <<>> THEN <<x>>
    ELSE IF localeCompare(SortKey(sorted[Len(sorted)], nameColumn),
                          SortKey(x, nameColumn)) <= 0
         THEN Append(sorted, x)
         ELSE Append(InsertSorted(SubSeq(sorted, 1, Len(sorted) - 1), x, nameColumn),
                     sorted[Len(sorted)])

RECURSIVE SortRows(_, _)
SortRows(data, nameColumn) ==
    IF data = <<>> THEN <<>>
    ELSE InsertSorted(SortRows(SubSeq(data, 1, Len(data) - 1), nameColumn),
                      data[Len(data)], nameColumn)

(***************************************************************************)
(* processFile.                                                            *)
(***************************************************************************)
\* row[index]: a cell the row array does not hold reads as undefined
CellAt(row, index) == IF index + 1 \in DOMAIN row THEN row[index + 1] ELSE Undefined

\* headers.forEach((header, index) => obj[header] = row[index]): a later
\* column of the same name overwrites an earlier one
ToObject(row, headers) ==
    [h \in Range(headers) |->
        CellAt(row, (CHOOSE i \in DOMAIN headers :
                        /\ headers[i] = h
                        /\ \A j \in DOMAIN headers : headers[j] = h => j <= i) - 1)]

ObjectData(dataRows, headers) ==
    [r \in DOMAIN dataRows |-> ToObject(dataRows[r], headers)]

\* objectData.forEach((row, index) => allErrors = allErrors.concat(validateRow(...)))
RECURSIVE RowPass(_, _, _)
RowPass(objectData, headers, index) ==
    IF index >= Len(objectData) THEN <<>>
    ELSE validateRow(objectData[index + 1], headers, index)
         \o RowPass(objectData, headers, index + 1)

\* the two passes concatenated the other way round
AllErrorsUniqueFirst(objectData, headers) ==
    checkUniqueConstraints(objectData, headers) \o RowPass(objectData, headers, 0)

AllErrors(objectData, headers) ==
    RowPass(objectData, headers, 0) \o checkUniqueConstraints(objectData, headers)

SortedDataset(objectData, headers) ==
    LET sortedData == SortRows(objectData, NameColumn(headers))
    IN  [headers      |-> headers,
         rows         |-> [r \in DOMAIN sortedData |->
                              [c \in DOMAIN headers |-> sortedData[r][headers[c]]]],
         originalData |-> sortedData]

\* ProcessResult without the early return on errors: the dataset is built and
\* returned whatever the errors are
ProcessResultAlwaysData(objectData, headers) ==
    [data   |-> <<SortedDataset(objectData, headers)>>,
     errors |-> AllErrors(objectData, headers)]

\* What the promise resolves with.  data is <<>> for null, else <<dataset>>.
ProcessResult(objectData, headers) ==
    LET allErrors == AllErrors(objectData, headers)
    IN  IF Len(allErrors) > 0
        THEN [data |-> <<>>, errors |-> allErrors]
        ELSE [data |-> <<SortedDataset(objectData, headers)>>, errors |-> <<>>]

\* The header cells as strings.  header.toLowerCase() throws for a header
\* cell that is not a string.
HeadersAreStrings(headerRow) == \A i \in DOMAIN headerRow : headerRow[i].t = "string"

HeaderNames(headerRow) == [i \in DOMAIN headerRow |-> headerRow[i].v]

Pending == [kind |-> "pending"]

NoCall == [op |-> "none"]

NoTask == [stage |-> "none"]

\* the page is not mounted
NoPage ==
    /\ file = <<>>
    /\ isProcessing = FALSE
    /\ validationErrors = <<>>
    /\ sheetData = <<>>
    /\ searchQuery = <<>>
    /\ showStoredFiles = FALSE
    /\ storedFiles = <<>>
    /\ filteredData = <<>>
    /\ memoDeps = <<>>
    /\ lastToast = "none"
    /\ task = NoTask
    /\ mounted = FALSE
    /\ uploads = 0
    /\ lastSelected = <<>>
    /\ uploadToasts = <<>>
    /\ excelData = <<>>
    /\ inserts = <<>>

\* no FuzzySearch has been constructed
NoSearch ==
    /\ fuseData = <<>>
    /\ spc = "none"
    /\ call = NoCall

\* ProcessOutcome with the empty-sheet test taken as "no data row"
ProcessOutcomeHeaderOnlyIsEmpty(count, data) ==
    IF count > 1
    THEN [kind |-> "rejected", error |-> "Multiple sheets detected"]
    ELSE IF Len(data) <= 1
    THEN [kind |-> "rejected", error |-> "The Excel sheet is empty"]
    ELSE IF ~HeadersAreStrings(data[1])
    THEN [kind |-> "rejected", error |-> "Failed to parse Excel file"]
    ELSE LET headers    == HeaderNames(data[1])
             objectData == ObjectData(Tail(data), headers)
             result     == ProcessResult(objectData, headers)
         IN  [kind |-> "resolved", data |-> result.data, errors |-> result.errors]

\* What reader.onload settles the promise with, for a workbook of count
\* sheets whose first sheet reads as data.
ProcessOutcome(count, data) ==
    IF count > 1
    THEN [kind |-> "rejected", error |-> "Multiple sheets detected"]
    ELSE IF Len(data) = 0
    THEN [kind |-> "rejected", error |-> "The Excel sheet is empty"]
    ELSE IF ~HeadersAreStrings(data[1])
    THEN [kind |-> "rejected", error |-> "Failed to parse Excel file"]
    ELSE LET headers    == HeaderNames(data[1])
             objectData == ObjectData(Tail(data), headers)
             result     == ProcessResult(objectData, headers)
         IN  [kind |-> "resolved", data |-> result.data, errors |-> result.errors]

\* console.log('Excel processing completed successfully:', {headers,
\* totalRows, sortedBy}), which runs when a dataset is produced
ProcessLog(result, data) ==
    IF result.kind = "resolved" /\ result.data # <<>>
    THEN <<[headers   |-> HeaderNames(data[1]),
            totalRows |-> Len(result.data[1].originalData),
            sortedBy  |-> NameColumn(HeaderNames(data[1]))]>>
    ELSE <<>>

\* reader.onload of processFile
ProcessFile ==
    /\ pc = "ready"
    /\ outcome' = ProcessOutcome(sheetCount, jsonData)
    /\ pc' = outcome'.kind
    /\ consoleLog' = consoleLog \o ProcessLog(outcome', jsonData)
    /\ UNCHANGED <<sheetCount, jsonData>>
    /\ UNCHANGED <<addrVars, searchVars, pageVars, dbVars>>

(***************************************************************************)
(* The bounded inputs.  A column is a header name with the raw values its  *)
(* cells are drawn from; a sheet takes its columns as a run of consecutive *)
(* columns of one of two layouts.                                          *)
(***************************************************************************)
ColName ==
    [name |-> <<"N", "a", "m", "e">>,
     pool |-> {Undefined,
              Str(<<" ">>),
              Str(<<"B", "o", "b">>),
              Str(<<"a", "l">>)}]

ColEmail ==
    [name |-> <<"E", "m", "a", "i", "l">>,
     pool |-> {Str(<<"a", "@", "x", ".", "c">>),
              Str(<<"b", "a", "d">>),
              Str(<<>>),
              Str(<<" ">>)}]

ColPhone ==
    [name |-> <<"P", "h", "o", "n", "e">>,
     pool |-> {Str(<<"1", "2", "3", "-", "4", "5", "6", "-", "7", "8", "9", "0">>),
              Str(<<"1", "2", "3">>),
              Num(1234567890),
              Undefined}]

ColID ==
    [name |-> <<"I", "D">>,
     pool |-> {Num(1),
              Str(<<"1", " ">>),
              Num(0),
              Str(<<"0">>),
              Undefined}]

ColAge ==
    [name |-> <<"A", "g", "e">>,
     pool |-> {Num(30),
              Str(<<"x">>),
              Str(<<" ">>),
              Undefined}]

ColEmailNumber ==
    [name |-> <<"e", "m", "a", "i", "l", "_", "n", "u", "m", "b", "e", "r">>,
     pool |-> {Str(<<"a", "@", "x", ".", "c">>),
              Str(<<"1", "2">>),
              Str(<<"b", "a", "d">>),
              Undefined}]

ColStudentID ==
    [name |-> <<"S", "t", "u", "d", "e", "n", "t", " ", "I", "D">>,
     pool |-> {Str(<<"A", "1">>),
              Str(<<"B", "2">>),
              Bool(FALSE),
              Str(<<" ">>)}]

ColCandidate ==
    [name |-> <<"C", "a", "n", "d", "i", "d", "a", "t", "e">>,
     pool |-> {Str(<<"2", "0", "2", "4", "-", "0", "1", "-", "1", "5">>),
              Str(<<"2", "0", "2", "4", "-", "0", "2", "-", "2", "0">>),
              Str(<<"b", "a", "d">>),
              Undefined}]

Layouts ==
    {<<ColName, ColEmail, ColPhone, ColID>>,
     <<ColAge, ColEmailNumber, ColStudentID, ColCandidate>>}

\* the runs of n consecutive columns of a layout
ColumnRuns(n) ==
    UNION { { SubSeq(l, i, i + n - 1) : i \in 1..(Len(l) - n + 1) } : l \in Layouts }

RECURSIVE RowsOf(_)
RowsOf(columns) ==
    IF columns = <<>> THEN {<<>>}
    ELSE { <<value>> \o rest : value \in Head(columns).pool, rest \in RowsOf(Tail(columns)) }

HeaderRow(columns) == [i \in DOMAIN columns |-> Str(columns[i].name)]

\* the column runs a single-sheet workbook may have
SheetColumns == UNION { ColumnRuns(c) : c \in 1..MaxHeaders }

\* a sheet with no row at all, and a sheet whose header row holds a number
OddSheets ==
    {<<>>,
     <<<<Str(ColName.name), Num(2024)>>, <<Str(<<"a", "l">>), Num(1)>>>>}

\* a second sheet in the workbook
MultiSheetInputs ==
    {<<>>,
     <<HeaderRow(<<ColName>>)>>,
     <<HeaderRow(<<ColName, ColID>>), <<Str(<<"a", "l">>), Num(1)>>>>}

Init ==
    /\ \/ /\ sheetCount = 1
          /\ \E columns \in SheetColumns :
                \E n \in 0..(MaxCells \div Len(columns)) :
                   \E rows \in [1..n -> RowsOf(columns)] :
                      jsonData = <<HeaderRow(columns)>> \o rows
       \/ sheetCount = 1 /\ jsonData \in OddSheets
       \/ sheetCount = 2 /\ jsonData \in MultiSheetInputs
    /\ pc = "ready"
    /\ outcome = Pending
    /\ col0 = 0
    /\ col = 0
    /\ letters = <<>>
    /\ apc = "idle"
    /\ consoleLog = <<>>
    /\ NoSearch
    /\ NoPage

Next == ProcessFile

Spec == Init /\ [][Next]_vars

(***************************************************************************)
(* getCellAddress's loop, one iteration at a time.                         *)
(***************************************************************************)
InitAddr ==
    /\ col0 \in 0..MaxCol
    /\ col = col0
    /\ letters = <<>>
    /\ apc = "loop"
    /\ sheetCount = 1
    /\ jsonData = <<>>
    /\ pc = "idle"
    /\ outcome = Pending
    /\ consoleLog = <<>>
    /\ NoSearch
    /\ NoPage

\* while (col >= 0) { result = letter + result; col = Math.floor(col / 26) - 1 }
LoopStep ==
    /\ apc = "loop"
    /\ col >= 0
    /\ letters' = <<ColumnLetter(col)>> \o letters
    /\ col' = NextCol(col)
    /\ UNCHANGED <<apc, col0>>
    /\ UNCHANGED <<procVars, searchVars, pageVars, dbVars>>

LoopExit ==
    /\ apc = "loop"
    /\ ~(col >= 0)
    /\ apc' = "done"
    /\ UNCHANGED <<col, letters, col0>>
    /\ UNCHANGED <<procVars, searchVars, pageVars, dbVars>>

NextAddr == LoopStep \/ LoopExit

SpecAddr == InitAddr /\ [][NextAddr]_vars /\ WF_vars(NextAddr)

(***************************************************************************)
(* The sheet a resolved run was given, as the properties below read it:    *)
(* r is a 0-based data-row index and c a 0-based column index.             *)
(***************************************************************************)
Resolved == pc = "resolved"

Headers == HeaderNames(jsonData[1])

NumRows == Len(jsonData) - 1

NumCols == Len(jsonData[1])

RowIndices == 0..(NumRows - 1)

ColIndices == 0..(NumCols - 1)

Raw(r, c) == CellAt(jsonData[r + 2], c)

\* the trimmed, stringified value of a cell
Val(r, c) == trim(String(Raw(r, c)))

Errors == outcome.errors

\* the errors of the row pass reported for cell (r, c)
ErrorsAt(r, c) ==
    { i \in DOMAIN Errors : /\ Errors[i].type # "unique"
                            /\ Errors[i].row = r + 2
                            /\ Errors[i].column = Headers[c + 1] }

\* absent, null, the empty string or a string of white space only
IsBlankCell(value) ==
    \/ value.t \in {"undefined", "null"}
    \/ value.t = "string" /\ \A i \in DOMAIN value.v : IsSpace(value.v[i])

\* C1: processFile resolves with a dataset if and only if it resolves with no
\* error: never a dataset together with errors, never neither.
C1_AllOrNothing ==
    Resolved => ((outcome.data # <<>>) <=> (outcome.errors = <<>>))

\* a sheet of two or more data rows resolved with a dataset and no error
C1_Witness ==
    /\ Resolved
    /\ NumRows >= 2
    /\ outcome.errors = <<>>
    /\ outcome.data # <<>>

\* C2: every cell whose raw value is absent, null, empty or white space only
\* gets exactly one error in the row pass, of kind blank.
C2_BlankCellsOneBlankError ==
    Resolved =>
        \A r \in RowIndices, c \in ColIndices :
            IsBlankCell(Raw(r, c)) =>
                /\ Cardinality(ErrorsAt(r, c)) = 1
                /\ \A i \in ErrorsAt(r, c) : Errors[i].type = "blank"

\* a column name holds one of the words, whatever the case of its letters
NameContains(header, words) == \E w \in words : includes(toLowerCase(header), w)

EmailWords == {<<"e", "m", "a", "i", "l">>}

PhoneWords == {<<"p", "h", "o", "n", "e">>, <<"m", "o", "b", "i", "l", "e">>}

NumericWords ==
    {<<"a", "g", "e">>, <<"n", "u", "m", "b", "e", "r">>,
     <<"n", "u", "m", "e", "r", "i", "c">>}

DateWords == {<<"d", "a", "t", "e">>}

IdentityWords ==
    {<<"i", "d">>, <<"u", "n", "i", "q", "u", "e">>,
     <<"r", "e", "g", "i", "s", "t", "r", "a", "t", "i", "o", "n">>}

\* the 0-based position of a column name in the header row
ColOf(header) == CHOOSE c \in ColIndices : Headers[c + 1] = header

\* the unique errors reported for cell (r, c)
UniqueErrorsAt(r, c) ==
    { i \in DOMAIN Errors : /\ Errors[i].type = "unique"
                            /\ Errors[i].row = r + 2
                            /\ Errors[i].column = Headers[c + 1] }

\* the first row of column c that holds the trimmed, stringified value of row r
FirstOccurrence(r, c) ==
    CHOOSE k \in 0..r : /\ Val(k, c) = Val(r, c)
                        /\ \A m \in 0..(k - 1) : Val(m, c) # Val(r, c)

\* the row number a unique error's message names
NamedRow(message) == ParseDigits(SubSeq(message, 2, Len(message) - 1))

\* absent, null or the empty string: blank under the row pass's test
IsEmptyCell(value) ==
    \/ value.t \in {"undefined", "null"}
    \/ value.t = "string" /\ value.v = <<>>

\* C3: a unique error sits at a non-blank row whose trimmed, stringified value
\* occurred at an earlier row of the column, and its message names the display
\* row of the first occurrence of that value; a first occurrence is never
\* flagged.
C3_UniqueNamesFirstOccurrence ==
    Resolved =>
        \A i \in DOMAIN Errors :
            Errors[i].type = "unique" =>
                LET c == ColOf(Errors[i].column)
                    j == Errors[i].row - 2
                IN  /\ j \in RowIndices
                    /\ ~IsBlankCell(Raw(j, c))
                    /\ \E k \in 0..(j - 1) : Val(k, c) = Val(j, c)
                    /\ FirstOccurrence(j, c) # j
                    /\ NamedRow(Errors[i].message) = FirstOccurrence(j, c) + 2

\* C4: in an identity column, every row whose value is non-blank under the
\* row pass's test and equals (trimmed, stringified) the non-blank value of an
\* earlier row gets a unique error.
C4_EveryDuplicateFlagged ==
    Resolved =>
        \A c \in ColIndices :
            NameContains(Headers[c + 1], IdentityWords) =>
                \A j \in RowIndices, i \in RowIndices :
                    ( /\ i < j
                      /\ ~IsEmptyCell(Raw(i, c))
                      /\ ~IsEmptyCell(Raw(j, c))
                      /\ Val(i, c) = Val(j, c) )
                    => UniqueErrorsAt(j, c) # {}

RuleKinds == {"email", "phone", "numeric", "date"}

\* the column name puts the column under the rule
Applies(kind, header) ==
    CASE kind = "email"   -> NameContains(header, EmailWords)
      [] kind = "phone"   -> NameContains(header, PhoneWords)
      [] kind = "numeric" -> NameContains(header, NumericWords)
      [] kind = "date"    -> NameContains(header, DateWords)

\* the rule's validator accepts the trimmed, stringified value
Passes(kind, stringValue) ==
    CASE kind = "email"   -> validateEmail(stringValue)
      [] kind = "phone"   -> validatePhone(stringValue)
      [] kind = "numeric" -> validateNumeric(stringValue)
      [] kind = "date"    -> validateDate(stringValue)

FailingRules(r, c) ==
    { k \in RuleKinds : Applies(k, Headers[c + 1]) /\ ~Passes(k, Val(r, c)) }

\* C5: for a non-blank cell the kinds of the errors of the row pass are exactly
\* the rules the column is under whose validator fails on the trimmed,
\* stringified value, each kind once.
C5_ErrorsAreFailingRules ==
    Resolved =>
        \A r \in RowIndices, c \in ColIndices :
            ~IsEmptyCell(Raw(r, c)) =>
                /\ { Errors[i].type : i \in ErrorsAt(r, c) } = FailingRules(r, c)
                /\ Cardinality(ErrorsAt(r, c)) = Cardinality(FailingRules(r, c))

\* a non-blank cell that fails two rules, next to one that fails none
C5_Witness ==
    /\ Resolved
    /\ \E r \in RowIndices, c \in ColIndices :
          ~IsEmptyCell(Raw(r, c)) /\ Cardinality(FailingRules(r, c)) = 2
    /\ \E r \in RowIndices, c \in ColIndices :
          /\ ~IsEmptyCell(Raw(r, c))
          /\ FailingRules(r, c) = {}
          /\ \E k \in RuleKinds : Applies(k, Headers[c + 1])

\* every cell is non-blank and passes the rules of its column, and no identity
\* column holds a value twice
CleanSheet ==
    /\ \A r \in RowIndices, c \in ColIndices :
          ~IsEmptyCell(Raw(r, c)) /\ FailingRules(r, c) = {}
    /\ \A c \in ColIndices :
          NameContains(Headers[c + 1], IdentityWords) =>
              \A i \in RowIndices, j \in RowIndices :
                  i < j => Val(i, c) # Val(j, c)

\* C6: a clean sheet resolves with no error and a dataset.
C6_CleanSheetNoErrors ==
    (Resolved /\ CleanSheet) => (outcome.errors = <<>> /\ outcome.data # <<>>)

\* a clean sheet of two rows with an identity column and a column under a rule
C6_Witness ==
    /\ Resolved
    /\ CleanSheet
    /\ NumRows >= 2
    /\ \E c \in ColIndices : NameContains(Headers[c + 1], IdentityWords)
    /\ \E c \in ColIndices : \E k \in RuleKinds : Applies(k, Headers[c + 1])
    /\ outcome.errors = <<>>

KindRank(type) ==
    CASE type = "blank"   -> 0
      [] type = "email"   -> 1
      [] type = "phone"   -> 2
      [] type = "numeric" -> 3
      [] type = "date"    -> 4

\* error a is reported at an earlier place than error b
Precedes(a, b) ==
    CASE a.type # "unique" /\ b.type # "unique" ->
             \/ a.row < b.row
             \/ a.row = b.row /\ ColOf(a.column) < ColOf(b.column)
             \/ /\ a.row = b.row
                /\ a.column = b.column
                /\ KindRank(a.type) < KindRank(b.type)
      [] a.type # "unique" /\ b.type = "unique" -> TRUE
      [] a.type = "unique" /\ b.type # "unique" -> FALSE
      [] OTHER ->
             \/ ColOf(a.column) < ColOf(b.column)
             \/ a.column = b.column /\ a.row < b.row

\* C7: the errors of the row pass come first, by row, then column, then rule
\* (email, phone, numeric, date); the unique errors follow, by identity column,
\* then row.
C7_ErrorOrder ==
    Resolved =>
        \A i \in DOMAIN Errors, j \in DOMAIN Errors :
            i < j => Precedes(Errors[i], Errors[j])

\* row-pass errors in two rows, unique errors in two columns, and a unique
\* error for a cell that lies before the cell of a row-pass error
C7_Witness ==
    /\ Resolved
    /\ \E i \in DOMAIN Errors, j \in DOMAIN Errors :
          /\ Errors[i].type # "unique" /\ Errors[j].type # "unique"
          /\ Errors[i].row # Errors[j].row
    /\ \E i \in DOMAIN Errors, j \in DOMAIN Errors :
          /\ Errors[i].type = "unique" /\ Errors[j].type = "unique"
          /\ Errors[i].column # Errors[j].column
    /\ \E i \in DOMAIN Errors, j \in DOMAIN Errors :
          /\ Errors[i].type # "unique" /\ Errors[j].type = "unique"
          /\ Errors[i].row = Errors[j].row
          /\ ColOf(Errors[j].column) < ColOf(Errors[i].column)

\* the letters the loop has built are those of no other column index
LettersDistinct ==
    \A c \in 0..MaxCol : c # col0 => ColumnLoop(c, <<>>) # letters

LettersExamples ==
    /\ col0 = 0   => letters = <<"A">>
    /\ col0 = 25  => letters = <<"Z">>
    /\ col0 = 26  => letters = <<"A", "A">>
    /\ col0 = 51  => letters = <<"A", "Z">>
    /\ col0 = 52  => letters = <<"B", "A">>
    /\ col0 = 701 => letters = <<"Z", "Z">>
    /\ col0 = 702 => letters = <<"A", "A", "A">>

\* C8: getCellAddress's loop ends for every column index 0..MaxCol, with the
\* letters of the examples (0 A, 25 Z, 26 AA, 51 AZ, 52 BA, 701 ZZ, 702 AAA),
\* and no two column indices get the same letters.
C8_LettersBijective ==
    /\ [](apc = "done" => (LettersExamples /\ LettersDistinct))
    /\ <>(apc = "done")

\* the loop has ended for column index 702 with three letters
C8_Witness ==
    /\ apc = "done"
    /\ col0 = 702
    /\ Len(letters) = 3

LetterPrefix(cellAddress) ==
    LET IsLetter(ch) == ch \in UpperChars
    IN  SelectSeq(cellAddress, IsLetter)

DigitSuffix(cellAddress) == SelectSeq(cellAddress, IsDigit)

\* the fault an error reports is found in the cell of data row r, column c
FaultAt(e, r, c) ==
    CASE e.type = "blank"  -> IsEmptyCell(Raw(r, c))
      [] e.type = "unique" -> \E k \in 0..(r - 1) : Val(k, c) = Val(r, c)
      [] OTHER             -> ~IsEmptyCell(Raw(r, c)) /\ e.type \in FailingRules(r, c)

\* C9: every error carries row = data-row index + 2 of the cell it is about,
\* a cellAddress made of the letters of its column's position and that row
\* number, and a unique error's message names the first occurrence's data-row
\* index + 2.
C9_SameOffsetEverywhere ==
    Resolved =>
        \A i \in DOMAIN Errors :
            LET e == Errors[i]
                r == e.row - 2
            IN  /\ r \in RowIndices
                /\ e.column \in Range(Headers)
                /\ FaultAt(e, r, ColOf(e.column))
                /\ e.cellAddress = LetterPrefix(e.cellAddress) \o DigitSuffix(e.cellAddress)
                /\ LetterPrefix(e.cellAddress) = ColumnLoop(ColOf(e.column), <<>>)
                /\ ParseDigits(DigitSuffix(e.cellAddress)) = e.row
                /\ e.type = "unique" =>
                       NamedRow(e.message) = FirstOccurrence(r, ColOf(e.column)) + 2

\* two rows of text, equal once trimmed and not blank
TextDuplicate(i, j, c) ==
    /\ i < j
    /\ Raw(i, c).t = "string"
    /\ Raw(j, c).t = "string"
    /\ Val(i, c) # <<>>
    /\ Val(i, c) = Val(j, c)

ColCity ==
    [name |-> <<"C", "i", "t", "y">>,
     pool |-> {Str(<<"b">>), Str(<<"a">>), Str(<<"B">>)}]

ColTitle ==
    [name |-> <<"T", "i", "t", "l", "e">>,
     pool |-> {Str(<<"B", "o", "b">>), Str(<<"b", "o", "b">>),
              Str(<<"a", "l">>), Bool(FALSE)}]

ColFullName ==
    [name |-> <<"F", "u", "l", "l", " ", "N", "a", "m", "e">>,
     pool |-> {Str(<<"x">>), Str(<<"Y">>), Undefined}]

ColZone ==
    [name |-> <<"Z", "o", "n", "e">>,
     pool |-> {Str(<<"z", "1">>), Str(<<"Z", "1">>), Num(7)}]

SortLayout == <<ColCity, ColTitle, ColFullName, ColZone>>

SortColumns ==
    UNION { { SubSeq(SortLayout, i, i + n - 1) : i \in 1..(Len(SortLayout) - n + 1) } :
            n \in 1..MaxHeaders }

InitSort ==
    /\ sheetCount = 1
    /\ \E columns \in SortColumns :
          \E n \in 0..(MaxCells \div Len(columns)) :
             \E rows \in [1..n -> RowsOf(columns)] :
                jsonData = <<HeaderRow(columns)>> \o rows
    /\ pc = "ready"
    /\ outcome = Pending
    /\ consoleLog = <<>>
    /\ col0 = 0
    /\ col = 0
    /\ letters = <<>>
    /\ apc = "idle"
    /\ NoSearch
    /\ NoPage

SpecSort == InitSort /\ [][Next]_vars

NameWords == {<<"n", "a", "m", "e">>, <<"t", "i", "t", "l", "e">>}

\* the 0-based positions of the headers that hold "name" or "title"
NameMatches == { c \in ColIndices : NameContains(Headers[c + 1], NameWords) }

\* the dataset a resolved run produced
Dataset == outcome.data[1]

HasDataset == Resolved /\ outcome.data # <<>>

\* C11: when a dataset is produced, the sort column is the first header that
\* holds "name" or "title" in any case, and the first header when none does.
C11_SortColumnFirstMatch ==
    HasDataset =>
        /\ Len(consoleLog) = 1
        /\ consoleLog[1].sortedBy =
              (IF NameMatches = {} THEN Headers[1]
               ELSE Headers[(CHOOSE c \in NameMatches :
                                \A d \in NameMatches : c <= d) + 1])

\* a dataset whose headers hold two matches, the first of them not in front
C11_Witness ==
    /\ HasDataset
    /\ Cardinality(NameMatches) >= 2
    /\ 0 \notin NameMatches

\* the input records, as objects
InputRecords == ObjectData(Tail(jsonData), Headers)

\* the case-folded, stringified value of the sort column; blank as ''
FoldedKey(record) ==
    LET value == record[consoleLog[1].sortedBy]
    IN  IF IsEmptyCell(value) THEN <<>> ELSE toLowerCase(String(value))

RowOrders(n) ==
    { p \in [1..n -> 1..n] : \A i \in 1..n, j \in 1..n : i # j => p[i] # p[j] }

\* C12: the dataset's rows are the input records stably sorted by the
\* case-folded, stringified value of the sort column: a permutation of the
\* input, keys non-decreasing, records of equal keys in their input order.
C12_StableSortByFoldedKey ==
    HasDataset =>
        LET out == Dataset.originalData
            in  == InputRecords
        IN  /\ Len(out) = Len(in)
            /\ \E p \in RowOrders(Len(in)) :
                  /\ \A i \in DOMAIN out : out[i] = in[p[i]]
                  /\ \A i \in DOMAIN out, j \in DOMAIN out :
                        i < j =>
                           /\ localeCompare(FoldedKey(out[i]), FoldedKey(out[j])) <= 0
                           /\ FoldedKey(out[i]) = FoldedKey(out[j]) => p[i] < p[j]

\* C16: a workbook of more than one sheet, or whose one sheet has no rows, is
\* rejected with the multiple-sheets / empty-sheet error and nothing else is
\* produced (no error list, no dataset, no log of a sort); a sheet of a header
\* row (of strings) and no data rows resolves with zero errors and a dataset
\* of no rows.
C16_RejectsBeforeValidation ==
    pc # "ready" =>
        /\ sheetCount > 1 =>
              /\ outcome = [kind |-> "rejected", error |-> "Multiple sheets detected"]
              /\ consoleLog = <<>>
        /\ (sheetCount = 1 /\ jsonData = <<>>) =>
              /\ outcome = [kind |-> "rejected", error |-> "The Excel sheet is empty"]
              /\ consoleLog = <<>>
        /\ (sheetCount = 1 /\ Len(jsonData) = 1 /\ HeadersAreStrings(jsonData[1])) =>
              /\ outcome.kind = "resolved"
              /\ outcome.errors = <<>>
              /\ outcome.data = <<[headers |-> HeaderNames(jsonData[1]),
                                   rows |-> <<>>,
                                   originalData |-> <<>>]>>

\* a header-only sheet of two columns has been processed
C16_Witness ==
    /\ pc = "resolved"
    /\ sheetCount = 1
    /\ Len(jsonData) = 1
    /\ Len(jsonData[1]) = 2
    /\ outcome.data # <<>>

(***************************************************************************)
(* FuzzySearch (src/utils/fuzzySearch.ts).  The row objects are the        *)
(* elements of fuseData; a reference to the i-th of them is [ref |-> i],   *)
(* so that two rows of the same contents are still two objects.  Fuse is a *)
(* library: what fuse.search answers is chosen by the environment among    *)
(* the lists that hold each indexed row at most once, in any order.        *)
(***************************************************************************)
MaxSearchRows == 2

Ref(i) == [ref |-> i]

\* one element of what fuse.search returns (includeScore and includeMatches
\* add score and matches, which search drops)
FuseResult(i) == [item |-> Ref(i), refIndex |-> i - 1]

DistinctSeqs(S) ==
    UNION { { o \in [1..k -> S] : \A i \in 1..k, j \in 1..k : i # j => o[i] # o[j] } :
            k \in 0..Cardinality(S) }

FuseAnswers(data) ==
    { [k \in DOMAIN o |-> FuseResult(o[k])] : o \in DistinctSeqs(DOMAIN data) }

\* search without the test of the trimmed query
searchUnguarded(query, answer) ==
    [asked |-> <<query>>,
     value |-> [k \in DOMAIN answer |-> answer[k].item]]

\* search returning Fuse's results as they are
searchWrapped(query, answer) ==
    IF trim(query) = <<>>
    THEN [asked |-> <<>>, value |-> <<>>]
    ELSE [asked |-> <<query>>, value |-> answer]

\* search(query), given what fuse.search(query) would answer: the queries
\* passed to Fuse and the value returned
search(query, answer) ==
    IF trim(query) = <<>>
    THEN [asked |-> <<>>, value |-> <<>>]
    ELSE [asked |-> <<query>>,
          value |-> [k \in DOMAIN answer |-> answer[k].item]]

\* JSON.stringify(item), up to the spelling: the properties in header order
\* with their values, a property holding undefined left out
JSONStringify(data, item) ==
    LET row == data[item.ref]
    IN  [h \in { h \in DOMAIN row : row[h] # Undefined } |-> row[h]]

MapHas(entries, key) == \E k \in DOMAIN entries : entries[k].key = key

\* results.forEach(item => { if (!allResults.has(key)) allResults.set(key, item) })
RECURSIVE CollectItems(_, _, _)
CollectItems(data, entries, items) ==
    IF items = <<>> THEN entries
    ELSE LET key == JSONStringify(data, Head(items))
         IN  CollectItems(data,
                          IF MapHas(entries, key) THEN entries
                          ELSE Append(entries, [key |-> key, item |-> Head(items)]),
                          Tail(items))

\* queries.forEach(query => ...)
RECURSIVE CollectQueries(_, _, _, _)
CollectQueries(data, entries, queries, answers) ==
    IF queries = <<>> THEN entries
    ELSE CollectQueries(data,
                        CollectItems(data, entries, search(Head(queries), Head(answers)).value),
                        Tail(queries), Tail(answers))

RECURSIVE Flatten(_)
Flatten(seqs) == IF seqs = <<>> THEN <<>> ELSE Head(seqs) \o Flatten(Tail(seqs))

\* searchMultiple(queries), given Fuse's answer to each query
searchMultiple(data, queries, answers) ==
    LET entries == CollectQueries(data, <<>>, queries, answers)
    IN  [asked |-> Flatten([k \in DOMAIN queries |-> search(queries[k], answers[k]).asked]),
         perQuery |-> [k \in DOMAIN queries |-> search(queries[k], answers[k]).value],
         value |-> [k \in DOMAIN entries |-> entries[k].item]]

Queries == {<<>>, <<" ">>, <<"a", "l">>, <<"b">>}

QueryLists ==
    {<<>>} \cup { <<q>> : q \in Queries } \cup { <<p, q>> : p \in Queries, q \in Queries }

SearchColumn ==
    [name |-> <<"N", "a", "m", "e">>,
     pool |-> {Str(<<"a", "l">>), Str(<<"B", "o", "b">>), Num(7)}]

\* new FuzzySearch(data, headers)
InitSearch ==
    /\ \E n \in 0..MaxSearchRows :
          \E rows \in [1..n -> RowsOf(<<SearchColumn>>)] :
             fuseData = ObjectData(rows, <<SearchColumn.name>>)
    /\ spc = "idle"
    /\ call = NoCall
    /\ sheetCount = 0
    /\ jsonData = <<>>
    /\ pc = "idle"
    /\ outcome = Pending
    /\ consoleLog = <<>>
    /\ col0 = 0
    /\ col = 0
    /\ letters = <<>>
    /\ apc = "idle"
    /\ NoPage

Search ==
    /\ spc = "idle"
    /\ \E query \in Queries, answer \in FuseAnswers(fuseData) :
          call' = [op |-> "search", query |-> query] @@ search(query, answer)
    /\ spc' = "returned"
    /\ UNCHANGED fuseData
    /\ UNCHANGED <<procVars, addrVars, pageVars, dbVars>>

SearchMultiple ==
    /\ spc = "idle"
    /\ \E queries \in QueryLists :
          \E answers \in [DOMAIN queries -> FuseAnswers(fuseData)] :
             call' = [op |-> "searchMultiple", queries |-> queries]
                        @@ searchMultiple(fuseData, queries, answers)
    /\ spc' = "returned"
    /\ UNCHANGED fuseData
    /\ UNCHANGED <<procVars, addrVars, pageVars, dbVars>>

\* the caller has taken the value
Return ==
    /\ spc = "returned"
    /\ spc' = "idle"
    /\ call' = NoCall
    /\ UNCHANGED fuseData
    /\ UNCHANGED <<procVars, addrVars, pageVars, dbVars>>

NextSearch == Search \/ SearchMultiple \/ Return

SpecSearch == InitSearch /\ [][NextSearch]_vars

\* C13: search returns the empty sequence for every query that is empty or
\* all white space, whatever the indexed dataset, and asks nothing of Fuse.
C13_BlankQueryReturnsNothing ==
    (call.op = "search" /\ trim(call.query) = <<>>) =>
        /\ call.value = <<>>
        /\ call.asked = <<>>

\* a query of one space has been searched over an index of two rows
C13_Witness ==
    /\ call.op = "search"
    /\ call.query = <<" ">>
    /\ Len(fuseData) = 2

RowRefs == { Ref(i) : i \in DOMAIN fuseData }

NoRepeats(seq) == \A i \in DOMAIN seq, j \in DOMAIN seq : i # j => seq[i] # seq[j]

FirstIndex(seq, x) ==
    CHOOSE i \in DOMAIN seq : seq[i] = x /\ \A j \in 1..(i - 1) : seq[j] # x

\* C14: searchMultiple returns every row that search returned for at least one
\* of the queries exactly once, rows of identical contents included, no other
\* row, in the order of first appearance across the queries.
C14_UnionEachRowOnce ==
    call.op = "searchMultiple" =>
        LET found == Flatten(call.perQuery)
        IN  /\ NoRepeats(call.value)
            /\ Range(call.value) = Range(found)
            /\ \A i \in DOMAIN call.value, j \in DOMAIN call.value :
                  i < j => FirstIndex(found, call.value[i]) < FirstIndex(found, call.value[j])

MaxUploads == 2

\* name.endsWith(suffix)
endsWith(name, suffix) ==
    /\ Len(name) >= Len(suffix)
    /\ SubSeq(name, Len(name) - Len(suffix) + 1, Len(name)) = suffix

\* no file-type test at all
AcceptsAnyFile(name) == TRUE

\* the file-type test taken without regard to case
AcceptsFileAnyCase(name) ==
    endsWith(toLowerCase(name), <<".", "x", "l", "s", "x">>)

\* selectedFile.name.endsWith('.xlsx')
AcceptsFile(name) == endsWith(name, <<".", "x", "l", "s", "x">>)

\* the files the user may select: a name and the workbook inside
GoodFile ==
    [name |-> <<"g", ".", "x", "l", "s", "x">>,
     sheetCount |-> 1,
     jsonData |-> <<HeaderRow(<<ColName>>), <<Str(<<"B", "o", "b">>)>>, <<Str(<<"a", "l">>)>>>>]

OtherFile ==
    [name |-> <<"o", ".", "x", "l", "s", "x">>,
     sheetCount |-> 1,
     jsonData |-> <<HeaderRow(<<ColCity>>), <<Str(<<"a">>)>>>>]

BadFile ==
    [name |-> <<"b", ".", "x", "l", "s", "x">>,
     sheetCount |-> 1,
     jsonData |-> <<HeaderRow(<<ColEmail>>), <<Str(<<"b", "a", "d">>)>>>>]

MultiSheetFile ==
    [name |-> <<"m", ".", "x", "l", "s", "x">>,
     sheetCount |-> 2,
     jsonData |-> <<HeaderRow(<<ColName>>), <<Str(<<"a", "l">>)>>>>]

UpperCaseFile ==
    [name |-> <<"U", ".", "X", "L", "S", "X">>,
     sheetCount |-> 1,
     jsonData |-> <<HeaderRow(<<ColZone>>), <<Str(<<"z", "1">>)>>>>]

EmptySheetFile ==
    [name |-> <<"e", ".", "x", "l", "s", "x">>,
     sheetCount |-> 1,
     jsonData |-> <<>>]

\* a file the FileReader fails on
UnreadableFile ==
    [name |-> <<"r", ".", "x", "l", "s", "x">>,
     sheetCount |-> 1,
     jsonData |-> <<>>,
     unreadable |-> TRUE]

Files ==
    {GoodFile, OtherFile, BadFile, MultiSheetFile, UpperCaseFile, EmptySheetFile,
     UnreadableFile}

\* processor.processFile(selectedFile): reader.onerror rejects, reader.onload
\* settles as ProcessOutcome says
processFile(selectedFile) ==
    IF "unreadable" \in DOMAIN selectedFile
    THEN [kind |-> "rejected", error |-> "Failed to read the file"]
    ELSE ProcessOutcome(selectedFile.sheetCount, selectedFile.jsonData)

\* property access: undefined for a property the object lacks
Get(row, header) == IF header \in DOMAIN row THEN row[header] ELSE Undefined

\* what comes back of sheet_data after it was stored as JSON: a property
\* holding undefined is not stored
FromJson(originalData) ==
    [r \in DOMAIN originalData |->
        [h \in { h \in DOMAIN originalData[r] : originalData[r][h] # Undefined } |->
            originalData[r][h]]]

\* the object saveToSupabase passes to insert
InsertRecord(fileName, data) ==
    [file_name |-> fileName,
     sheet_data |-> data.originalData,
     headers |-> data.headers,
     row_count |-> Len(data.originalData),
     validation_passed |-> TRUE]

\* the row the table holds for an insert
StoredRow(record, id) ==
    [id |-> id,
     file_name |-> record.file_name,
     sheet_data |-> FromJson(record.sheet_data),
     headers |-> record.headers,
     row_count |-> record.row_count,
     validation_passed |-> record.validation_passed]

\* a row stored by an earlier visit of the page
OldRow ==
    StoredRow(InsertRecord(<<"p", ".", "x", "l", "s", "x">>,
                           [headers |-> <<ColTitle.name>>,
                            rows |-> <<<<Str(<<"B", "o", "b">>)>>>>,
                            originalData |-> ObjectData(<<<<Str(<<"B", "o", "b">>)>>>>,
                                                        <<ColTitle.name>>)]),
              1)

Reverse(seq) == [k \in DOMAIN seq |-> seq[Len(seq) + 1 - k]]

\* select('*').order('uploaded_at', {ascending: false})
SelectAll(table) == Reverse(table)

\* the sheetData loadStoredFile builds of a stored row
StoredSheet(storedFile) ==
    [headers |-> storedFile.headers,
     rows |-> [r \in DOMAIN storedFile.sheet_data |->
                 [c \in DOMAIN storedFile.headers |->
                     Get(storedFile.sheet_data[r], storedFile.headers[c])]],
     originalData |-> storedFile.sheet_data]

\* the dependencies of the memo taken as the query alone
MemoDepsQueryOnly(data, query) == <<query>>

\* useMemo(..., [sheetData, searchQuery])
MemoDeps(data, query) == <<data, query>>

\* the values the body of the filteredData memo may return
FilteredValues(data, query) ==
    IF data = <<>> \/ trim(query) = <<>>
    THEN {IF data = <<>> THEN <<>> ELSE data[1].originalData}
    ELSE LET rows == data[1].originalData
         IN  { [k \in DOMAIN search(query, answer).value |->
                   rows[search(query, answer).value[k].ref]] :
               answer \in FuseAnswers(rows) }

\* the render after a handler: the memo is recomputed when a dependency changed
Render ==
    IF MemoDeps(sheetData', searchQuery') = memoDeps
    THEN UNCHANGED <<memoDeps, filteredData>>
    ELSE /\ memoDeps' = MemoDeps(sheetData', searchQuery')
         /\ filteredData' \in FilteredValues(sheetData', searchQuery')

PageQueries == {<<>>, <<" ">>, <<"a">>}

InitPage ==
    /\ file = <<>>
    /\ isProcessing = FALSE
    /\ validationErrors = <<>>
    /\ sheetData = <<>>
    /\ searchQuery = <<>>
    /\ showStoredFiles = FALSE
    /\ storedFiles = <<>>
    /\ filteredData = <<>>
    /\ memoDeps = MemoDeps(<<>>, <<>>)
    /\ lastToast = "none"
    /\ task = NoTask
    /\ mounted = FALSE
    /\ uploads = 0
    /\ lastSelected = <<>>
    /\ uploadToasts = <<>>
    /\ excelData \in {<<>>, <<OldRow>>}
    /\ inserts = <<>>
    /\ NoSearch
    /\ sheetCount = 0
    /\ jsonData = <<>>
    /\ pc = "idle"
    /\ outcome = Pending
    /\ consoleLog = <<>>
    /\ col0 = 0
    /\ col = 0
    /\ letters = <<>>
    /\ apc = "idle"

NotPage == UNCHANGED <<procVars, addrVars, searchVars>>

\* useEffect(() => { loadStoredFiles() }, []): the select settles, with the
\* rows or with an error
MountLoaded ==
    /\ ~mounted
    /\ mounted' = TRUE
    /\ \/ storedFiles' = SelectAll(excelData)
       \/ UNCHANGED storedFiles
    /\ UNCHANGED <<file, isProcessing, validationErrors, sheetData, searchQuery,
                   showStoredFiles, lastToast, task, uploads>>
    /\ UNCHANGED <<lastSelected, uploadToasts>>
    /\ Render
    /\ UNCHANGED dbVars
    /\ NotPage

\* handleFileSelect up to the await of processFile, whose promise is kept
\* in task with what it will settle with.  The upload area takes
\* no pointer events while isProcessing.
HandleFileSelect ==
    /\ ~isProcessing
    /\ uploads < MaxUploads
    /\ uploads' = uploads + 1
    /\ \E selectedFile \in Files :
          /\ lastSelected' = selectedFile
          /\ IF ~AcceptsFile(selectedFile.name)
             THEN /\ lastToast' = "Invalid File Type"
                  /\ uploadToasts' = <<"Invalid File Type">>
                  /\ UNCHANGED <<file, isProcessing, validationErrors, sheetData,
                                 searchQuery, task>>
             ELSE /\ file' = selectedFile.name
                  /\ isProcessing' = TRUE
                  /\ validationErrors' = <<>>
                  /\ sheetData' = <<>>
                  /\ searchQuery' = <<>>
                  /\ task' = [stage |-> "processing",
                               selectedFile |-> selectedFile,
                               result |-> processFile(selectedFile)]
                  /\ uploadToasts' = <<>>
                  /\ UNCHANGED lastToast
    /\ UNCHANGED <<showStoredFiles, storedFiles, mounted>>
    /\ Render
    /\ UNCHANGED dbVars
    /\ NotPage

\* what the awaited processFile of the running upload settles with: the
\* promise made when handleFileSelect called it
AwaitedResult == task.result

\* processFile rejected: the catch toasts, the finally block runs
ProcessRejected ==
    /\ AwaitedResult.kind = "rejected"
    /\ lastToast' = "Processing Error"
    /\ uploadToasts' = Append(uploadToasts, "Processing Error")
    /\ isProcessing' = FALSE
    /\ task' = NoTask
    /\ UNCHANGED <<validationErrors, sheetData, inserts>>

\* processFile resolved with errors: they are shown
ProcessFoundErrors ==
    /\ AwaitedResult.kind = "resolved"
    /\ Len(AwaitedResult.errors) > 0
    /\ validationErrors' = AwaitedResult.errors
    /\ lastToast' = "Validation Errors Found"
    /\ uploadToasts' = Append(uploadToasts, "Validation Errors Found")
    /\ isProcessing' = FALSE
    /\ task' = NoTask
    /\ UNCHANGED <<sheetData, inserts>>

\* processFile resolved with a dataset: it is shown and its insert issued
ProcessPassed ==
    /\ AwaitedResult.kind = "resolved"
    /\ Len(AwaitedResult.errors) = 0
    /\ AwaitedResult.data # <<>>
    /\ sheetData' = AwaitedResult.data
    /\ inserts' = Append(inserts, InsertRecord(task.selectedFile.name, AwaitedResult.data[1]))
    /\ task' = [task EXCEPT !.stage = "saving"]
    /\ UNCHANGED <<validationErrors, isProcessing, lastToast, uploadToasts>>

\* processFile resolved with neither errors nor data: nothing is saved
ProcessPassedNoData ==
    /\ AwaitedResult.kind = "resolved"
    /\ Len(AwaitedResult.errors) = 0
    /\ AwaitedResult.data = <<>>
    /\ sheetData' = AwaitedResult.data
    /\ lastToast' = "File Processed Successfully"
    /\ uploadToasts' = Append(uploadToasts, "File Processed Successfully")
    /\ isProcessing' = FALSE
    /\ task' = NoTask
    /\ UNCHANGED <<validationErrors, inserts>>

\* processFile settles: the errors are shown, or the dataset is shown and
\* its insert issued, or the rejection is caught
ProcessSettled ==
    /\ task.stage = "processing"
    /\ \/ ProcessRejected
       \/ ProcessFoundErrors
       \/ ProcessPassed
       \/ ProcessPassedNoData
    /\ UNCHANGED <<file, searchQuery, showStoredFiles, storedFiles, mounted, uploads,
                   lastSelected>>
    /\ Render
    /\ UNCHANGED excelData
    /\ NotPage

\* the insert failed in a way that clears the dataset again
SaveFailedRollsBack ==
    /\ lastToast' = "Processing Error"
    /\ uploadToasts' = uploadToasts \o <<"Save Error", "Processing Error">>
    /\ sheetData' = <<>>
    /\ isProcessing' = FALSE
    /\ task' = NoTask
    /\ UNCHANGED excelData

\* the insert failed and handleFileSelect ends without its finally block
SaveFailedStaysProcessing ==
    /\ lastToast' = "Processing Error"
    /\ uploadToasts' = uploadToasts \o <<"Save Error", "Processing Error">>
    /\ task' = NoTask
    /\ UNCHANGED <<sheetData, isProcessing, excelData>>

\* the insert failed: saveToSupabase toasts and rethrows, handleFileSelect
\* catches, toasts and runs its finally block
SaveFailed ==
    /\ lastToast' = "Processing Error"
    /\ uploadToasts' = uploadToasts \o <<"Save Error", "Processing Error">>
    /\ isProcessing' = FALSE
    /\ task' = NoTask
    /\ UNCHANGED <<sheetData, excelData>>

\* the insert succeeded: the row is stored, saveToSupabase toasts and awaits
\* loadStoredFiles
SaveStored ==
    /\ excelData' = Append(excelData, StoredRow(inserts[Len(inserts)], Len(excelData) + 1))
    /\ lastToast' = "Data Saved"
    /\ uploadToasts' = Append(uploadToasts, "Data Saved")
    /\ task' = [task EXCEPT !.stage = "reloading"]
    /\ UNCHANGED <<sheetData, isProcessing>>

\* the insert settles
SaveSettled ==
    /\ task.stage = "saving"
    /\ \/ SaveStored
       \/ SaveFailed
    /\ UNCHANGED <<file, validationErrors, searchQuery, showStoredFiles,
                   storedFiles, mounted, uploads, lastSelected>>
    /\ Render
    /\ UNCHANGED inserts
    /\ NotPage

\* the select of loadStoredFiles settles, with the rows or with an error,
\* and handleFileSelect runs to its end
ReloadSettled ==
    /\ task.stage = "reloading"
    /\ \/ storedFiles' = SelectAll(excelData)
       \/ UNCHANGED storedFiles
    /\ lastToast' = "File Processed Successfully"
    /\ uploadToasts' = Append(uploadToasts, "File Processed Successfully")
    /\ isProcessing' = FALSE
    /\ task' = NoTask
    /\ UNCHANGED <<file, validationErrors, sheetData, searchQuery, showStoredFiles,
                   mounted, uploads, lastSelected>>
    /\ Render
    /\ UNCHANGED dbVars
    /\ NotPage

\* the button Show/Hide Stored Files
ToggleStoredFiles ==
    /\ showStoredFiles' = ~showStoredFiles
    /\ UNCHANGED <<file, isProcessing, validationErrors, sheetData, searchQuery,
                   storedFiles, lastToast, task, mounted, uploads>>
    /\ UNCHANGED <<lastSelected, uploadToasts>>
    /\ Render
    /\ UNCHANGED dbVars
    /\ NotPage

\* loadStoredFile(storedFile), from the list shown under showStoredFiles
LoadStoredFile ==
    /\ showStoredFiles
    /\ \E k \in DOMAIN storedFiles :
          sheetData' = <<StoredSheet(storedFiles[k])>>
    /\ searchQuery' = <<>>
    /\ showStoredFiles' = FALSE
    /\ lastToast' = "File Loaded"
    /\ UNCHANGED <<file, isProcessing, validationErrors, storedFiles, task, mounted,
                   uploads>>
    /\ UNCHANGED <<lastSelected, uploadToasts>>
    /\ Render
    /\ UNCHANGED dbVars
    /\ NotPage

\* clearFile, the button shown with the file and disabled while isProcessing
ClearFile ==
    /\ file # <<>>
    /\ ~isProcessing
    /\ file' = <<>>
    /\ sheetData' = <<>>
    /\ validationErrors' = <<>>
    /\ searchQuery' = <<>>
    /\ UNCHANGED <<isProcessing, showStoredFiles, storedFiles, lastToast, task,
                   mounted, uploads>>
    /\ UNCHANGED <<lastSelected, uploadToasts>>
    /\ Render
    /\ UNCHANGED dbVars
    /\ NotPage

\* onChange of the search box, shown with sheetData
SetSearchQuery ==
    /\ sheetData # <<>>
    /\ \E query \in PageQueries : searchQuery' = query
    /\ UNCHANGED <<file, isProcessing, validationErrors, sheetData, showStoredFiles,
                   storedFiles, lastToast, task, mounted, uploads>>
    /\ UNCHANGED <<lastSelected, uploadToasts>>
    /\ Render
    /\ UNCHANGED dbVars
    /\ NotPage

NextPage ==
    \/ MountLoaded
    \/ HandleFileSelect
    \/ ProcessSettled
    \/ SaveSettled
    \/ ReloadSettled
    \/ ToggleStoredFiles
    \/ LoadStoredFile
    \/ ClearFile
    \/ SetSearchQuery

SpecPage == InitPage /\ [][NextPage]_vars

\* C18: the page never holds a dataset together with validation errors:
\* sheetData is non-null only when validationErrors is empty.
C18_DatasetOrErrors == sheetData # <<>> => validationErrors = <<>>

\* C19: every insert the page issues is for a file whose name ends in .xlsx
\* and whose processFile resolved with no errors and a dataset, it carries
\* that dataset and validation_passed = true, and it is not issued while
\* the file is still being processed.
C19_InsertOnlyValidated ==
    /\ \A k \in DOMAIN inserts :
          \E f \in Files :
             LET result == ProcessOutcome(f.sheetCount, f.jsonData)
             IN  /\ inserts[k].file_name = f.name
                 /\ endsWith(f.name, <<".", "x", "l", "s", "x">>)
                 /\ result.kind = "resolved"
                 /\ result.errors = <<>>
                 /\ result.data # <<>>
                 /\ inserts[k].sheet_data = result.data[1].originalData
                 /\ inserts[k].headers = result.data[1].headers
                 /\ inserts[k].validation_passed = TRUE
    /\ Len(inserts) <= uploads
    /\ task.stage = "processing" => Len(inserts) < uploads

\* one upload was inserted and the next one ended with validation errors
C19_Witness ==
    /\ Len(inserts) = 1
    /\ uploads = 2
    /\ validationErrors # <<>>
    /\ task = NoTask

\* C20: the rows the page displays are rows of the current sheetData: none
\* without a dataset, all of them in dataset order under a blank query, and
\* otherwise only rows of the current dataset.
C20_FilteredFromCurrentData ==
    /\ sheetData = <<>> => filteredData = <<>>
    /\ (sheetData # <<>> /\ trim(searchQuery) = <<>>) =>
          filteredData = sheetData[1].originalData
    /\ sheetData # <<>> =>
          \A k \in DOMAIN filteredData :
             filteredData[k] \in Range(sheetData[1].originalData)

\* a second dataset is on display, searched with a query that found a row
C20_Witness ==
    /\ Len(inserts) = 2
    /\ sheetData # <<>>
    /\ trim(searchQuery) # <<>>
    /\ filteredData # <<>>

\* the step in which the insert of the running upload fails
SaveFailureStep == task.stage = "saving" /\ task'.stage = "none"

SpecPageLive ==
    /\ SpecPage
    /\ WF_vars(ProcessSettled)
    /\ WF_vars(SaveSettled)
    /\ WF_vars(ReloadSettled)

\* C22: isProcessing is true exactly while an accepted handleFileSelect call
\* is running, and when the requests it awaits settle it becomes false
\* again on every path.
C22_ProcessingEnds ==
    /\ [](isProcessing <=> task.stage # "none")
    /\ isProcessing ~> ~isProcessing

\* an upload of a file the reader fails on has ended
C22_Witness ==
    /\ lastSelected = UnreadableFile
    /\ uploadToasts = <<"Processing Error">>
    /\ task = NoTask
    /\ ~isProcessing

\* a step that is a call of handleFileSelect
HandleFileSelectStep == uploads' # uploads

\* C23: a call of handleFileSelect with a file whose name does not end in
\* ".xlsx" leaves file, isProcessing, validationErrors, sheetData and
\* searchQuery as they are and starts neither processFile nor an insert; a
\* call with an accepted file sets file and resets validationErrors,
\* sheetData and searchQuery before processing starts.
C23_RejectedNameChangesNothing ==
    [][HandleFileSelectStep =>
          IF ~endsWith(lastSelected'.name, <<".", "x", "l", "s", "x">>)
          THEN /\ UNCHANGED <<file, isProcessing, validationErrors, sheetData, searchQuery>>
               /\ UNCHANGED <<task, inserts, excelData>>
          ELSE /\ file' = lastSelected'.name
               /\ validationErrors' = <<>>
               /\ sheetData' = <<>>
               /\ searchQuery' = <<>>
               /\ isProcessing'
               /\ task'.stage = "processing"
               /\ task'.selectedFile = lastSelected'
               /\ UNCHANGED <<inserts, excelData>>]_vars

\* a file named U.XLSX was just turned away with a dataset on display
C23_Witness ==
    /\ lastSelected = UpperCaseFile
    /\ lastToast = "Invalid File Type"
    /\ sheetData # <<>>
    /\ file # <<>>
    /\ ~isProcessing

====
